---- MODULE Spec2Model ----
(***************************************************************************)
(* Model of the WeDeploy / Launchpad fluent HTTP request builder.          *)
(*                                                                         *)
(* The repository holds two implementations of request timeouts:           *)
(*   impl = "timer"   : src/wedeploy.go (context.WithCancel + AfterFunc)   *)
(*   impl = "context" : src/launchpad.go 986-1305 (context.WithTimeout,    *)
(*                      cancelRemainingTimeout after the transport call)   *)
(* Body resolution (setupAction) and classification (action) are the same  *)
(* in both and in the older Launchpad client (src/launchpad.go 1-243).     *)
(*                                                                         *)
(* The transport (net/http Client.Do) is the environment: while a call is  *)
(* in flight it may read the request body, answer with a status, fail with *)
(* a network error, or - once the request's context is cancelled - return  *)
(* the cancellation error.                                                 *)
(***************************************************************************)
EXTENDS Integers, Sequences, FiniteSets, TLC

VARIABLES
    impl,           \* which implementation of the timeout is running
    URL,            \* WeDeploy.URL
    Headers,        \* WeDeploy.Headers (shared with Request.Header)
    FormValues,     \* WeDeploy.FormValues (*url.Values, nil = None)
    Query,          \* WeDeploy.Query (*query.Builder, nil = None)
    RequestBody,    \* WeDeploy.RequestBody (io.Reader, nil = None)
    timeout,        \* WeDeploy.timeout (*time.Duration, nil = None)
    Request,        \* WeDeploy.Request
    Response,       \* WeDeploy.Response
    context,        \* WeDeploy.context (context version; 0 = nil/Background)
    cancelTimeout,  \* WeDeploy.cancelTimeout (context version; 0 = nil)
    ctxs,           \* every cancellable context created so far, with its timer
    pc,             \* where the caller is: "idle", "do" (inside Client.Do), "done"
    bb,             \* action's local bb: copy of a *bytes.Buffer body
    doResult,       \* what Client.Do returned
    err,            \* what the last terminal action returned
    actionNo,       \* number of terminal actions started
    doCalls,        \* calls of Client.Do made by the terminal action started last
    sent,           \* about the last request handed to Client.Do: see SentEntry
    paramLog,       \* the URL at construction and the last value Param set per key
    mutated,        \* a mutator ran since the last request was handed to Client.Do
    firedInFlight,  \* the timer armed by the running action went off during Client.Do
    calls,          \* the calls of query and header mutators made so far, in order
    builders,       \* SpecBuilders: the builders URL and Path returned so far
    headerMaps      \* SpecBuilders: the http.Header maps allocated so far

vars == <<impl, URL, Headers, FormValues, Query, RequestBody, timeout, Request,
          Response, context, cancelTimeout, ctxs, pc, bb, doResult, err,
          actionNo, doCalls, sent, paramLog, mutated, firedInFlight,
          calls, builders, headerMaps>>

builder == <<URL, Headers, FormValues, Query, RequestBody, timeout>>

\* The variables of Spec, SpecParam and SpecQuery, which follow one builder
\* through its mutators and terminal actions.
solo == <<impl, URL, Headers, FormValues, Query, RequestBody, timeout, Request,
          Response, context, cancelTimeout, ctxs, pc, bb, doResult, err,
          actionNo, doCalls, sent, paramLog, mutated, firedInFlight>>
runtime == <<Request, Response, context, cancelTimeout, ctxs, pc, bb, doResult,
             err, actionNo, doCalls, sent, firedInFlight>>

-----------------------------------------------------------------------------
\* Bounds of the model.
MaxActions == 2     \* terminal actions per behaviour
MaxForm == 1        \* form values added per behaviour
MaxFilters == 1     \* filter clauses added per behaviour (Spec)
MaxCalls == 3       \* mutators called per behaviour (SpecQuery, SpecBuilders)
MaxBuilders == 3    \* builders made per behaviour (SpecBuilders)

\* Optional values (Go nil pointers / nil interfaces).
None == <<>>
Some(x) == <<x>>

\* Keys of url.Values, in the order sort.Strings gives them.
KeyOrder == <<"a", "b", "k">>
Keys == {KeyOrder[i] : i \in 1..Len(KeyOrder)}
Vals == {"v1", "v2"}

\* url.Values{}: no key has a value.
EmptyValues == [k \in Keys |-> <<>>]

\* url.Values.Add: appends the value to the key's list.
ValuesAdd(vs, k, v) == [vs EXCEPT ![k] = Append(@, v)]

\* url.Values.Set: replaces the key's list by the one value.
ValuesSetAppending(vs, k, v) == [vs EXCEPT ![k] = Append(@, v)]
ValuesSet(vs, k, v) == [vs EXCEPT ![k] = <<v>>]

\* The pairs <<k, v>> of one key, in the order of its values.
PairsOf(k, vlist) == [i \in 1..Len(vlist) |-> <<k, vlist[i]>>]

\* url.Values.Encode: "k=v" pairs sorted by key, values of a key in their order.
RECURSIVE EncodeFrom(_, _)
EncodeFrom(vs, i) ==
    IF i > Len(KeyOrder) THEN <<>>
    ELSE PairsOf(KeyOrder[i], vs[KeyOrder[i]]) \o EncodeFrom(vs, i + 1)
Encode(vs) == EncodeFrom(vs, 1)

\* url.ParseQuery (URL.Query()): the raw pairs grouped by key, order kept per key.
RECURSIVE ParseQuery(_)
ParseQuery(raw) ==
    IF raw = <<>> THEN EmptyValues
    ELSE LET rest == ParseQuery(Tail(raw))
         IN  [rest EXCEPT ![Head(raw)[1]] = <<Head(raw)[2]>> \o @]

-----------------------------------------------------------------------------
\* Headers.
HeaderNames == {"User-Agent", "Content-Type", "Authorization", "X-Custom"}
UserAgent == "WeDeploy/master (+https://wedeploy.com)"
ContentTypeJSON == "application/json"
ContentTypeForm == "application/x-www-form-urlencoded"

\* http.Header.Set
HeaderSet(h, k, v) == [h EXCEPT ![k] = <<v>>]

\* http.Header.Add
HeaderAddReplacing(h, k, v) == [h EXCEPT ![k] = <<v>>]
HeaderAdd(h, k, v) == [h EXCEPT ![k] = Append(@, v)]

\* http.Header.Get: the first value of the key, "" when there is none.
HeaderGet(h, k) == IF h[k] = <<>> THEN "" ELSE h[k][1]

\* The headers URL() gives every new builder.
DefaultHeaders ==
    HeaderSet(HeaderSet([k \in HeaderNames |-> <<>>], "User-Agent", UserAgent),
              "Content-Type", ContentTypeJSON)

-----------------------------------------------------------------------------
\* The structured query (package query, not part of the sources at hand).
Unmarshalable == "chan"     \* a Go value encoding/json refuses (chan, func)

\* query.New()
NewQuery == [Type |-> "", Filter |-> <<>>, Sort |-> <<>>, Aggregation |-> <<>>,
             Highlight |-> <<>>, Limit |-> None, Offset |-> None]

\* Builder.Filter(field, operator, value): appends one clause.
QueryFilter(q, field, op, value) ==
    [q EXCEPT !.Filter = Append(@, [field |-> field, operator |-> op, value |-> value])]

\* Builder.Aggregate(name, field) and Builder.Aggregate(name, field, operator):
\* appends the clause {field: {operator, name}}; without an operator the clause
\* has none.
QueryAggregateFirstIsKey(q, args) ==
    [q EXCEPT !.Aggregation =
        Append(@, [field |-> args[1], name |-> args[2],
                   operator |-> IF Len(args) >= 3 THEN args[3] ELSE ""])]
QueryAggregate(q, args) ==
    [q EXCEPT !.Aggregation =
        Append(@, [field |-> args[2], name |-> args[1],
                   operator |-> IF Len(args) >= 3 THEN args[3] ELSE ""])]

\* Builder.Sort(field, direction...): appends {field: direction}, "asc" when no
\* direction is given.
QuerySort(q, args) ==
    [q EXCEPT !.Sort =
        Append(@, [field |-> args[1],
                   direction |-> IF Len(args) >= 2 THEN args[2] ELSE "asc"])]

\* Builder.Count(): the type becomes "count".
QueryCount(q) == [q EXCEPT !.Type = "count"]

\* Builder.Highlight(field): adds the field unless it is there already.
QueryHighlight(q, field) ==
    [q EXCEPT !.Highlight =
        IF \E i \in DOMAIN @ : @[i] = field THEN @ ELSE Append(@, field)]

\* Builder.Limit(n) and Builder.Offset(n): overwrite the value.
QueryLimit(q, n) == [q EXCEPT !.Limit = Some(n)]
QueryOffset(q, n) == [q EXCEPT !.Offset = Some(n)]

\* json.Marshal fails on a value it cannot encode.
MarshalOK(q) == \A i \in 1..Len(q.Filter) : q.Filter[i].value # Unmarshalable

\* json.Marshal(query): the keys present, in struct order, and their values.
MarshalKeys(q) ==
    (IF q.Type # "" THEN <<"type">> ELSE <<>>)
    \o (IF q.Filter # <<>> THEN <<"filter">> ELSE <<>>)
    \o (IF q.Sort # <<>> THEN <<"sort">> ELSE <<>>)
    \o (IF q.Aggregation # <<>> THEN <<"aggregation">> ELSE <<>>)
    \o (IF q.Highlight # <<>> THEN <<"highlight">> ELSE <<>>)
    \o (IF q.Limit # None THEN <<"limit">> ELSE <<>>)
    \o (IF q.Offset # None THEN <<"offset">> ELSE <<>>)

\* The JSON of one clause: an object of one key.
FilterJSON(c) == [key |-> c.field, operator |-> c.operator, value |-> c.value]
SortJSON(c) == [key |-> c.field, direction |-> c.direction]
AggregationJSON(c) ==
    [key |-> c.field,
     inner |-> IF c.operator = "" THEN <<"name">> ELSE <<"operator", "name">>,
     operator |-> c.operator,
     name |-> c.name]

\* The JSON document: the value under each key (meaningful for the keys present).
MarshalDoc(q) ==
    [type |-> q.Type,
     filter |-> [i \in DOMAIN q.Filter |-> FilterJSON(q.Filter[i])],
     sort |-> [i \in DOMAIN q.Sort |-> SortJSON(q.Sort[i])],
     aggregation |-> [i \in DOMAIN q.Aggregation |-> AggregationJSON(q.Aggregation[i])],
     highlight |-> q.Highlight,
     limit |-> IF q.Limit = None THEN 0 ELSE q.Limit[1],
     offset |-> IF q.Offset = None THEN 0 ELSE q.Offset[1]]
Marshal(q) == [keys |-> MarshalKeys(q), doc |-> MarshalDoc(q)]

-----------------------------------------------------------------------------
\* Bodies. A content is what a reader yields; a reader is a Go io.Reader value.
EmptyJSON == [keys |-> <<>>, doc |-> MarshalDoc(NewQuery)]
EmptyContent == [format |-> "empty", form |-> <<>>, json |-> EmptyJSON, raw |-> ""]
FormContent(pairs) == [EmptyContent EXCEPT !.format = "form", !.form = pairs]
JSONContent(j) == [EmptyContent EXCEPT !.format = "json", !.json = j]
RawContent(r) == [EmptyContent EXCEPT !.format = "raw", !.raw = r]

Reader(type, content) == [type |-> type, content |-> content, consumed |-> FALSE]

\* What a request built now from this reader carries: what is still unread.
Remaining(rb) ==
    IF rb = None \/ rb[1].consumed THEN EmptyContent ELSE rb[1].content

-----------------------------------------------------------------------------
\* Cancellable contexts and their timers. Context 0 is context.TODO() /
\* context.Background(): it is never cancelled.
NewCtx(parent, cancelled, timer, action) ==
    [parent |-> parent, cancelled |-> cancelled, timer |-> timer, action |-> action]

IsCancelled(c) == c # 0 /\ ctxs[c].cancelled

\* c is d or derives from d.
RECURSIVE DerivesFrom(_, _, _)
DerivesFrom(cs, c, d) ==
    c # 0 /\ (c = d \/ DerivesFrom(cs, cs[c].parent, d))

\* A context's cancel function: cancels it and every context derived from it and
\* stops their pending timers; contexts already cancelled are left as they are.
CancelCtx(cs, c) ==
    [i \in DOMAIN cs |->
        IF DerivesFrom(cs, i, c) /\ ~cs[i].cancelled
        THEN [cs[i] EXCEPT !.cancelled = TRUE,
                           !.timer = IF @ = "pending" THEN "stopped" ELSE @]
        ELSE cs[i]]

\* The timer of context c goes off: its callback cancels the context.
FireTimer(cs, c) == CancelCtx([cs EXCEPT ![c].timer = "fired"], c)

-----------------------------------------------------------------------------
\* Errors.
NoErr == "nil"
ErrUnexpectedResponse == "Unexpected response"
MarshalError == "json: unsupported type"
URLError == "*url.Error"
CtxError == "context canceled"
NetErrors == {"connection refused"}

Methods == {"GET", "POST"}
Statuses == {399, 400}
Durations == {0, 1}
RawBodies == {"r1"}
ReaderTypes == {"bytes.Buffer", "strings.Reader"}

NoResult == [kind |-> "none", status |-> 0, error |-> NoErr]

-----------------------------------------------------------------------------
\* Init: the builder URL(uri) returns.
NewBuilder(u) ==
    /\ URL = u
    /\ Headers = DefaultHeaders
    /\ FormValues = None
    /\ Query = None
    /\ RequestBody = None
    /\ timeout = None
    /\ Request = None
    /\ Response = None
    /\ context = 0
    /\ cancelTimeout = 0
    /\ ctxs = <<>>
    /\ pc = "idle"
    /\ bb = None
    /\ doResult = NoResult
    /\ err = NoErr
    /\ actionNo = 0
    /\ doCalls = 0
    /\ sent = None
    /\ paramLog = [initial |-> u, set |-> [k \in Keys |-> None]]
    /\ mutated = FALSE
    /\ firedInFlight = FALSE
    /\ calls = <<>>

\* Spec, SpecParam and SpecQuery follow the one builder above.
NoOtherBuilders == builders = <<>> /\ headerMaps = <<>>

ValidURL == [valid |-> TRUE, path |-> <<"http://example.com", "url">>, query |-> <<>>]
InvalidURL == [valid |-> FALSE, path |-> <<"://example.com">>, query |-> <<>>]

Init ==
    /\ impl \in {"timer", "context"}
    /\ \E u \in {ValidURL, InvalidURL} : NewBuilder(u)
    /\ NoOtherBuilders

-----------------------------------------------------------------------------
\* Mutators. The caller runs them between terminal actions.

\* getOrCreateForm
getOrCreateForm == IF FormValues = None THEN EmptyValues ELSE FormValues[1]

\* Number of values held by a url.Values.
RECURSIVE CountFrom(_, _)
CountFrom(vs, i) ==
    IF i > Len(KeyOrder) THEN 0 ELSE Len(vs[KeyOrder[i]]) + CountFrom(vs, i + 1)
FormCount == IF FormValues = None THEN 0 ELSE CountFrom(FormValues[1], 1)

Form(key, value) ==
    /\ pc = "idle"
    /\ FormCount < MaxForm
    /\ FormValues' = Some(ValuesAdd(getOrCreateForm, key, value))
    /\ mutated' = TRUE
    /\ UNCHANGED <<impl, calls, builders, headerMaps, paramLog, URL, Headers, Query, RequestBody, timeout>>
    /\ UNCHANGED runtime

Body(body) ==
    /\ pc = "idle"
    /\ RequestBody' = Some(body)
    /\ mutated' = TRUE
    /\ UNCHANGED <<impl, calls, builders, headerMaps, paramLog, URL, Headers, FormValues, Query, timeout>>
    /\ UNCHANGED runtime

\* One mutator call, as the caller made it: the method, the builder it was
\* called on (0: the builder of Spec), its string arguments and its number.
Call(op, b, args, n) == [op |-> op, b |-> b, args |-> args, n |-> n]

\* getOrCreateQuery
getOrCreateQueryAlwaysNew == NewQuery
getOrCreateQuery == IF Query = None THEN NewQuery ELSE Query[1]

FilterCount == IF Query = None THEN 0 ELSE Len(Query[1].Filter)

\* A query mutator: the query becomes q and the call is noted.
QueryMutator(q, call) ==
    /\ pc = "idle"
    /\ Len(calls) < MaxCalls
    /\ Query' = Some(q)
    /\ calls' = Append(calls, call)
    /\ mutated' = TRUE
    /\ UNCHANGED <<impl, builders, headerMaps, paramLog, URL, Headers, FormValues,
                   RequestBody, timeout>>
    /\ UNCHANGED runtime

Filter(field, op, value) ==
    QueryMutator(QueryFilter(getOrCreateQuery, field, op, value),
                 Call("Filter", 0, <<field, op, value>>, 0))

Aggregate(args) ==
    QueryMutator(QueryAggregate(getOrCreateQuery, args), Call("Aggregate", 0, args, 0))

Sort(args) ==
    QueryMutator(QuerySort(getOrCreateQuery, args), Call("Sort", 0, args, 0))

Count ==
    QueryMutator(QueryCount(getOrCreateQuery), Call("Count", 0, <<>>, 0))

Highlight(field) ==
    QueryMutator(QueryHighlight(getOrCreateQuery, field),
                 Call("Highlight", 0, <<field>>, 0))

LimitForwardedToOffset(n) ==
    QueryMutator(QueryOffset(getOrCreateQuery, n), Call("Limit", 0, <<>>, n))
Limit(n) ==
    QueryMutator(QueryLimit(getOrCreateQuery, n), Call("Limit", 0, <<>>, n))

Offset(n) ==
    QueryMutator(QueryOffset(getOrCreateQuery, n), Call("Offset", 0, <<>>, n))

Timeout(d) ==
    /\ pc = "idle"
    /\ timeout' = Some(d)
    /\ mutated' = TRUE
    /\ UNCHANGED <<impl, calls, builders, headerMaps, paramLog, URL, Headers, FormValues, Query, RequestBody>>
    /\ UNCHANGED runtime

\* Param: url.Parse, Query().Set, Encode, String. A URL that does not parse is
\* left as it is.
ParamUnchecked(key, value) ==
    /\ pc = "idle"
    /\ URL' = [URL EXCEPT !.query = Encode(ValuesSet(ParseQuery(@), key, value))]
    /\ paramLog' = [paramLog EXCEPT !.set[key] = Some(value)]
    /\ mutated' = TRUE
    /\ UNCHANGED <<impl, calls, builders, headerMaps, Headers, FormValues, Query, RequestBody, timeout>>
    /\ UNCHANGED runtime
Param(key, value) ==
    /\ pc = "idle"
    /\ URL' = IF URL.valid
              THEN [URL EXCEPT !.query = Encode(ValuesSet(ParseQuery(@), key, value))]
              ELSE URL
    /\ paramLog' = [paramLog EXCEPT !.set[key] = Some(value)]
    /\ mutated' = TRUE
    /\ UNCHANGED <<impl, calls, builders, headerMaps, Headers, FormValues, Query, RequestBody, timeout>>
    /\ UNCHANGED runtime

\* Params: url.Parse and Query(); nil when the URL does not parse.
Params == IF URL.valid THEN Some(ParseQuery(URL.query)) ELSE None

-----------------------------------------------------------------------------
\* setupAction: what the body and the headers become.

\* strings.NewReader(w.FormValues.Encode())
FormReader == Some(Reader("strings.Reader", FormContent(Encode(FormValues[1]))))

\* After the FormValues branch.
BodyAfterForm == IF FormValues # None THEN FormReader ELSE RequestBody
HeadersAfterForm ==
    IF FormValues # None THEN HeaderSet(Headers, "Content-Type", ContentTypeForm)
    ELSE Headers

\* bytes.NewReader(bin), bin the query's JSON.
QueryReader == Some(Reader("bytes.Reader", JSONContent(Marshal(Query[1]))))

\* After the Query branch: the reader given to http.NewRequest.
ResolvedBody == IF Query # None THEN QueryReader ELSE BodyAfterForm

\* The error setupAction returns: json.Marshal's, else http.NewRequest's.
SetupErrorIgnoringURL ==
    IF Query # None /\ ~MarshalOK(Query[1]) THEN MarshalError ELSE NoErr
SetupError ==
    IF Query # None /\ ~MarshalOK(Query[1]) THEN MarshalError
    ELSE IF ~URL.valid THEN URLError
    ELSE NoErr

\* w.RequestBody when setupAction returns.
BodyAfterSetup == IF SetupError = MarshalError THEN BodyAfterForm ELSE ResolvedBody

\* setupRequestTimeout's condition.
TimeoutArmedAlways(t) == t # None
TimeoutArmed(t) == t # None /\ t[1] # 0

\* The context the new request is given, and the contexts after setupAction.
NextCtx == Len(ctxs) + 1

\* setupRequestTimeout, timer version: context.WithCancel(context.TODO()) and
\* time.AfterFunc(timeout, cancel).
TimerSetupCtxs ==
    IF TimeoutArmed(timeout)
    THEN Append(ctxs, NewCtx(0, FALSE, "pending", actionNo + 1))
    ELSE ctxs

\* setupContext and setupRequestTimeout, context version:
\* context.WithTimeout(w.Request.Context(), timeout) on top of w.context. A
\* context derived from a cancelled one is born cancelled and arms no timer.
ContextSetupCtxs ==
    IF TimeoutArmed(timeout)
    THEN Append(ctxs, NewCtx(context, IsCancelled(context),
                             IF IsCancelled(context) THEN "none" ELSE "pending",
                             actionNo + 1))
    ELSE ctxs

\* w.context when setupAction returns (context version).
ContextAfterSetup == IF TimeoutArmed(timeout) THEN NextCtx ELSE context

\* cancelRemainingTimeout (context version).
cancelRemainingTimeout(cs) ==
    IF impl = "context" /\ cancelTimeout # 0 THEN CancelCtx(cs, cancelTimeout) ELSE cs

\* The request http.NewRequest builds, with the background context; its headers
\* are w.Headers itself.
NewRequest(method) ==
    [method |-> method, url |-> URL, body |-> Remaining(ResolvedBody), ctx |-> 0]

\* Request.WithContext
WithContextDropped(req, c) == req
WithContext(req, c) == [req EXCEPT !.ctx = c]

\* w.Request when setupAction returns, timer version.
TimerRequest(method) ==
    IF TimeoutArmed(timeout)
    THEN WithContext(NewRequest(method), NextCtx)
    ELSE NewRequest(method)

\* w.Request when setupAction returns, context version: setupContext gives the
\* request w.context, setupRequestTimeout the context derived from it.
ContextRequest(method) ==
    IF TimeoutArmed(timeout)
    THEN WithContext(WithContext(NewRequest(method), context), NextCtx)
    ELSE WithContext(NewRequest(method), context)

\* About the request action n hands to Client.Do: the method asked for, and,
\* when no mutator ran since the request before it, the body of that request.
SentEntry(n, method) ==
    [action |-> n, method |-> method,
     prev |-> IF Request # None /\ ~mutated THEN Some(Request[1].body) ELSE None]

\* action's copy of a *bytes.Buffer body, taken before Client.Do.
BufferCopy(rb) ==
    IF rb # None /\ rb[1].type = "bytes.Buffer"
    THEN Some(Reader("bytes.Buffer", Remaining(rb)))
    ELSE None

-----------------------------------------------------------------------------
\* A terminal action (Get, Head, Post, Put, Patch, Delete), up to Client.Do.

\* setupAction failed: action returns the error, Client.Do is not called.
ActionSetupFails(method) ==
    /\ pc = "idle"
    /\ actionNo < MaxActions
    /\ SetupError # NoErr
    /\ RequestBody' = BodyAfterSetup
    /\ Headers' = HeadersAfterForm
    /\ Request' = IF impl = "context" /\ SetupError = URLError THEN None ELSE Request
    /\ ctxs' = cancelRemainingTimeout(ctxs)
    /\ err' = SetupError
    /\ actionNo' = actionNo + 1
    /\ doCalls' = 0
    /\ doResult' = NoResult
    /\ firedInFlight' = FALSE
    /\ UNCHANGED <<impl, calls, builders, headerMaps, paramLog, URL, FormValues, Query, timeout, Response, context,
                   cancelTimeout, pc, bb, sent, mutated>>

\* setupAction succeeded: the request is built and handed to Client.Do.
ActionCallsDo(method) ==
    /\ pc = "idle"
    /\ actionNo < MaxActions
    /\ SetupError = NoErr
    /\ RequestBody' = BodyAfterSetup
    /\ Headers' = HeadersAfterForm
    /\ IF impl = "timer"
       THEN /\ ctxs' = TimerSetupCtxs
            /\ Request' = Some(TimerRequest(method))
            /\ UNCHANGED <<context, cancelTimeout>>
       ELSE /\ ctxs' = ContextSetupCtxs
            /\ Request' = Some(ContextRequest(method))
            /\ context' = ContextAfterSetup
            /\ cancelTimeout' = IF TimeoutArmed(timeout) THEN NextCtx ELSE cancelTimeout
    /\ bb' = BufferCopy(RequestBody')
    /\ pc' = "do"
    /\ doResult' = NoResult
    /\ actionNo' = actionNo + 1
    /\ doCalls' = 1
    /\ sent' = Some(SentEntry(actionNo + 1, method))
    /\ mutated' = FALSE
    /\ firedInFlight' = FALSE
    /\ UNCHANGED <<impl, calls, builders, headerMaps, paramLog, URL, FormValues, Query, timeout, Response, err>>

-----------------------------------------------------------------------------
\* Client.Do: the transport, while the call is in flight.

RequestCancelled == Request # None /\ IsCancelled(Request[1].ctx)

\* The transport reads the request body: the reader given to NewRequest is spent.
TransportReadsBody ==
    /\ pc = "do"
    /\ ~RequestCancelled
    /\ RequestBody # None
    /\ ~RequestBody[1].consumed
    /\ RequestBody' = Some([RequestBody[1] EXCEPT !.consumed = TRUE])
    /\ UNCHANGED <<impl, calls, builders, headerMaps, paramLog, URL, Headers, FormValues, Query, timeout, mutated>>
    /\ UNCHANGED <<Request, Response, context, cancelTimeout, ctxs, pc, bb, doResult,
                   err, actionNo, doCalls, sent, firedInFlight>>

\* A response arrives.
TransportResponds(status) ==
    /\ pc = "do"
    /\ ~RequestCancelled
    /\ doResult' = [kind |-> "response", status |-> status, error |-> NoErr]
    /\ pc' = "done"
    /\ UNCHANGED <<impl, calls, builders, headerMaps, paramLog, mutated>>
    /\ UNCHANGED builder
    /\ UNCHANGED <<Request, Response, context, cancelTimeout, ctxs, bb, err,
                   actionNo, doCalls, sent, firedInFlight>>

\* The call fails on the network (or on the Client's own Timeout).
TransportFails(e) ==
    /\ pc = "do"
    /\ ~RequestCancelled
    /\ doResult' = [kind |-> "error", status |-> 0, error |-> e]
    /\ pc' = "done"
    /\ UNCHANGED <<impl, calls, builders, headerMaps, paramLog, mutated>>
    /\ UNCHANGED builder
    /\ UNCHANGED <<Request, Response, context, cancelTimeout, ctxs, bb, err,
                   actionNo, doCalls, sent, firedInFlight>>

\* The request's context is cancelled: the call returns the context's error.
TransportObservesCancel ==
    /\ pc = "do"
    /\ RequestCancelled
    /\ doResult' = [kind |-> "error", status |-> 0, error |-> CtxError]
    /\ pc' = "done"
    /\ UNCHANGED <<impl, calls, builders, headerMaps, paramLog, mutated>>
    /\ UNCHANGED builder
    /\ UNCHANGED <<Request, Response, context, cancelTimeout, ctxs, bb, err,
                   actionNo, doCalls, sent, firedInFlight>>

-----------------------------------------------------------------------------
\* action, after Client.Do returned.

\* err == nil && StatusCode >= 400 becomes ErrUnexpectedResponse.
ClassifyAbove400(e, status) ==
    IF e = NoErr /\ status > 400 THEN ErrUnexpectedResponse ELSE e
ClassifyReplacing(e, status) ==
    IF e # NoErr \/ status >= 400 THEN ErrUnexpectedResponse ELSE e
Classify(e, status) ==
    IF e = NoErr /\ status >= 400 THEN ErrUnexpectedResponse ELSE e

\* w.Response as Client.Do sets it: nil when the call failed.
ResponseOf(r) ==
    IF r.kind = "response"
    THEN Some([status |-> r.status, ctx |-> Request[1].ctx, action |-> actionNo,
               body |-> "unread"])
    ELSE None

\* if bb != nil { w.RequestBody = bb }
RestoreBodyNever(rb, copy) == rb
RestoreBody(rb, copy) == IF copy # None THEN copy ELSE rb

ActionReturns ==
    /\ pc = "done"
    /\ Response' = ResponseOf(doResult)
    /\ ctxs' = cancelRemainingTimeout(ctxs)
    /\ RequestBody' = RestoreBody(RequestBody, bb)
    /\ bb' = None
    /\ err' = Classify(doResult.error, doResult.status)
    /\ pc' = "idle"
    /\ UNCHANGED <<impl, calls, builders, headerMaps, paramLog, URL, Headers, FormValues, Query, timeout, Request, context,
                   cancelTimeout, doResult, actionNo, doCalls, sent, mutated,
                   firedInFlight>>

-----------------------------------------------------------------------------
\* The timer of a context goes off (time.AfterFunc's callback, or the deadline of
\* context.WithTimeout): it cancels the context.
TimerFires(c) ==
    /\ ctxs[c].timer = "pending"
    /\ ctxs' = FireTimer(ctxs, c)
    /\ firedInFlight' =
         (firedInFlight \/ (pc = "do" /\ ctxs[c].action = actionNo))
    /\ UNCHANGED <<impl, calls, builders, headerMaps, paramLog, mutated>>
    /\ UNCHANGED builder
    /\ UNCHANGED <<Request, Response, context, cancelTimeout, pc, bb, doResult, err,
                   actionNo, doCalls, sent>>

-----------------------------------------------------------------------------
\* DecodeJSON: the caller reads the body of the response held by the builder. The
\* body stream lives under the context of the request it answers: once that
\* context is cancelled the read fails with the context's error.
DecodeJSONOutcome ==
    IF IsCancelled(Response[1].ctx) THEN "failed" ELSE "read"

DecodeJSON ==
    /\ pc = "idle"
    /\ Response # None
    /\ Response[1].body = "unread"
    /\ Response' = Some([Response[1] EXCEPT !.body = DecodeJSONOutcome])
    /\ UNCHANGED <<impl, calls, builders, headerMaps, paramLog, mutated>>
    /\ UNCHANGED builder
    /\ UNCHANGED <<Request, context, cancelTimeout, ctxs, pc, bb, doResult, err,
                   actionNo, doCalls, sent, firedInFlight>>

-----------------------------------------------------------------------------
Next ==
    \/ \E k \in {"a"}, v \in {"v1"} : Form(k, v)
    \/ \E t \in ReaderTypes, r \in RawBodies : Body(Reader(t, RawContent(r)))
    \/ FilterCount < MaxFilters /\ \E v \in {"v1", Unmarshalable} : Filter("f", "=", v)
    \/ \E d \in Durations : Timeout(d)
    \/ \E m \in Methods : ActionSetupFails(m)
    \/ \E m \in Methods : ActionCallsDo(m)
    \/ TransportReadsBody
    \/ \E st \in Statuses : TransportResponds(st)
    \/ \E e \in NetErrors : TransportFails(e)
    \/ TransportObservesCancel
    \/ ActionReturns
    \/ \E c \in DOMAIN ctxs : TimerFires(c)
    \/ DecodeJSON

Spec == Init /\ [][Next]_vars

\* Client.Do returns once the request's context is cancelled, and action goes on
\* to its return once Client.Do has returned.
FairSpec ==
    Spec /\ WF_vars(TransportObservesCancel) /\ WF_vars(ActionReturns)

-----------------------------------------------------------------------------
\* The URL's query string alone: builders over URLs with and without parameters,
\* every sequence of Param calls on them, and terminal actions in between.
ParamQueries ==
    { <<>>,
      << <<"k", "v1">> >>,
      << <<"b", "v2">>, <<"a", "v1">> >>,
      << <<"a", "v1">>, <<"a", "v2">> >> }

InitParam ==
    /\ impl = "timer"
    /\ \E q \in ParamQueries, ok \in BOOLEAN :
          NewBuilder([valid |-> ok,
                      path |-> IF ok THEN ValidURL.path ELSE InvalidURL.path,
                      query |-> q])
    /\ NoOtherBuilders

NextParam ==
    \/ \E k \in Keys, v \in Vals : Param(k, v)
    \/ \E m \in Methods : ActionSetupFails(m)
    \/ \E m \in Methods : ActionCallsDo(m)
    \/ \E st \in Statuses : TransportResponds(st)
    \/ \E e \in NetErrors : TransportFails(e)
    \/ ActionReturns

SpecParam == InitParam /\ [][NextParam]_vars

-----------------------------------------------------------------------------
\* The structured query alone: every interleaving of the query mutators on one
\* builder, and terminal actions sending the query as the body.
AggregateArgs == {<<"a", "f">>, <<"a", "f", "min">>, <<"m", "g", "missing">>}
SortArgs == {<<"field2">>, <<"id", "desc">>}
PageSizes == {0, 10}

InitQuery ==
    /\ impl = "timer"
    /\ NewBuilder(ValidURL)
    /\ NoOtherBuilders

NextQuery ==
    \/ \E f \in {"foo", "bar"} : Filter(f, "not", "bah")
    \/ \E a \in AggregateArgs : Aggregate(a)
    \/ \E a \in SortArgs : Sort(a)
    \/ Count
    \/ Highlight("xyz")
    \/ \E n \in PageSizes : Limit(n)
    \/ \E n \in PageSizes : Offset(n)
    \/ ActionCallsDo("POST")
    \/ TransportResponds(200)
    \/ ActionReturns

SpecQuery == InitQuery /\ [][NextQuery]_vars

-----------------------------------------------------------------------------
\* Several builders: URL and Path make them, Header, Auth and Form change them,
\* setupAction builds their requests. A builder holds its header map by
\* reference (http.Header is a Go map): headerMaps is the heap of these maps.

\* strings.TrimPrefix, strings.TrimSuffix, strings.Join
TrimPrefix(str, prefix) ==
    IF Len(str) >= Len(prefix) /\ SubSeq(str, 1, Len(prefix)) = prefix
    THEN SubSeq(str, Len(prefix) + 1, Len(str))
    ELSE str
TrimSuffix(str, suffix) ==
    IF Len(str) >= Len(suffix) /\ SubSeq(str, Len(str) - Len(suffix) + 1, Len(str)) = suffix
    THEN SubSeq(str, 1, Len(str) - Len(suffix))
    ELSE str
RECURSIVE Join(_, _)
Join(parts, sep) ==
    IF parts = <<>> THEN ""
    ELSE IF Len(parts) = 1 THEN parts[1]
    ELSE parts[1] \o sep \o Join(Tail(parts), sep)

\* urilib.ResolvePath: one leading and one trailing "/" is cut from each path,
\* the paths left empty are dropped, the others joined by "/".
ResolvePath(paths) ==
    Join(SelectSeq([i \in DOMAIN paths |-> TrimSuffix(TrimPrefix(paths[i], "/"), "/")],
                   LAMBDA path : Len(path) # 0),
         "/")

\* url.Parse, as far as the URLs here go: a URL starting with ":" has no scheme.
ParsesOK(uri) == ~(Len(uri) >= 1 /\ SubSeq(uri, 1, 1) = ":")

\* w.Headers = http.Header{}: the place of the new map in the heap.
SharedHeaders(heap) == IF heap = <<>> THEN Len(heap) + 1 ELSE Len(heap)
FreshHeaders(heap) == Len(heap) + 1

\* URL(uri, paths...): the builder it returns.
NewWeDeploy(uri, paths, heap) ==
    [URL |-> ResolvePath(<<uri, ResolvePath(paths)>>),
     Headers |-> FreshHeaders(heap),
     FormValues |-> None, Query |-> None, RequestBody |-> None, timeout |-> None,
     Request |-> None, err |-> NoErr]

\* basicAuth: base64 of "username:password".
Base64(str) ==
    IF str = "admin:safe" THEN "YWRtaW46c2FmZQ==" ELSE "base64(" \o str \o ")"
basicAuth(username, password) == Base64(username \o ":" \o password)

BaseURIs == {"http://x/y", "http://localhost/"}
PathArgs == {<<>>, <<"a", "/b/", "c">>, <<"//c">>, <<"//c", "//d">>}
AuthArgs == {<<"myToken">>, <<"admin", "safe">>}

InitBuilders ==
    /\ impl = "timer"
    /\ NewBuilder(ValidURL)
    /\ \E uri \in BaseURIs : builders = <<NewWeDeploy(uri, <<>>, <<>>)>>
    /\ headerMaps = <<DefaultHeaders>>

\* Path: URL(w.URL, paths...).
Path(b, paths) ==
    /\ Len(calls) < MaxCalls
    /\ Len(builders) < MaxBuilders
    /\ builders' = Append(builders, NewWeDeploy(builders[b].URL, paths, headerMaps))
    /\ headerMaps' = Append(headerMaps, DefaultHeaders)
    /\ calls' = Append(calls, Call("Path", b, paths, Len(builders) + 1))
    /\ UNCHANGED solo

\* Header: w.Headers.Add(key, value).
HeaderCall(b, key, value, call) ==
    /\ Len(calls) < MaxCalls
    /\ headerMaps' = [headerMaps EXCEPT ![builders[b].Headers] = HeaderAdd(@, key, value)]
    /\ calls' = Append(calls, call)
    /\ UNCHANGED builders
    /\ UNCHANGED solo

Header(b, key, value) == HeaderCall(b, key, value, Call("Header", b, <<key, value>>, 0))

\* Auth: Header("Authorization", ...) with the bearer token or the basic credentials.
AuthHeader(args) ==
    IF Len(args) = 1 THEN "Bearer " \o args[1]
    ELSE "Basic " \o basicAuth(args[1], args[2])

Auth(b, args) == HeaderCall(b, "Authorization", AuthHeader(args), Call("Auth", b, args, 0))

\* Form on builder b.
FormOn(b, key, value) ==
    /\ Len(calls) < MaxCalls
    /\ (IF builders[b].FormValues = None THEN 0
        ELSE CountFrom(builders[b].FormValues[1], 1)) < MaxForm
    /\ builders' = [builders EXCEPT ![b].FormValues =
                       Some(ValuesAdd(IF @ = None THEN EmptyValues ELSE @[1], key, value))]
    /\ calls' = Append(calls, Call("Form", b, <<key, value>>, 0))
    /\ UNCHANGED headerMaps
    /\ UNCHANGED solo

\* setupAction on builder b (src/wedeploy.go): the form and the query resolve the
\* body, http.NewRequest parses the URL, the request's Header is w.Headers
\* itself; with no timeout set setupRequestTimeout does nothing.
setupAction(b, method) ==
    LET w == builders[b]
        formBody ==
            IF w.FormValues # None
            THEN Some(Reader("strings.Reader", FormContent(Encode(w.FormValues[1]))))
            ELSE w.RequestBody
        marshalFails == w.Query # None /\ ~MarshalOK(w.Query[1])
        body ==
            IF w.Query # None /\ ~marshalFails
            THEN Some(Reader("bytes.Reader", JSONContent(Marshal(w.Query[1]))))
            ELSE formBody
        e == IF marshalFails THEN MarshalError
             ELSE IF ~ParsesOK(w.URL) THEN URLError
             ELSE NoErr
        req == [method |-> method, url |-> w.URL, Header |-> w.Headers,
                body |-> Remaining(body)]
    IN  /\ Len(calls) < MaxCalls
        /\ ~TimeoutArmed(w.timeout)
        /\ headerMaps' =
              IF w.FormValues # None
              THEN [headerMaps EXCEPT ![w.Headers] = HeaderSet(@, "Content-Type", ContentTypeForm)]
              ELSE headerMaps
        /\ builders' = [builders EXCEPT ![b] =
                          [w EXCEPT !.RequestBody = body,
                                    !.Request = IF e = NoErr THEN Some(req) ELSE @,
                                    !.err = e]]
        /\ calls' = Append(calls, Call("setupAction", b, <<method>>, 0))
        /\ UNCHANGED solo

NextBuilders ==
    \/ \E b \in DOMAIN builders, paths \in PathArgs : Path(b, paths)
    \/ \E b \in DOMAIN builders, v \in {"foo", "bar"} : Header(b, "X-Custom", v)
    \/ \E b \in DOMAIN builders : Header(b, "Content-Type", "text/plain")
    \/ \E b \in DOMAIN builders, args \in AuthArgs : Auth(b, args)
    \/ \E b \in DOMAIN builders : FormOn(b, "a", "v1")
    \/ \E b \in DOMAIN builders : setupAction(b, "GET")

SpecBuilders == InitBuilders /\ [][NextBuilders]_vars

-----------------------------------------------------------------------------
\* Properties.

InFlight == pc \in {"do", "done"}
Returned == pc = "idle" /\ actionNo > 0

\* The body a request carries when it is the raw body: the reader's content, or
\* nothing when the reader was nil or already read.
CarriesRawBody ==
    \/ Request[1].body = EmptyContent
    \/ RequestBody # None /\ Request[1].body = RequestBody[1].content

\* C1: whatever the order of Form, the query mutators and Body, a request built
\* while a form value exists has Content-Type application/x-www-form-urlencoded
\* and the form encoding as its body; the query's JSON is the body only when no
\* form value exists, the raw body only when neither exists.
C1_FormWinsOverQueryAndBody ==
    InFlight =>
        /\ FormValues # None =>
              /\ HeaderGet(Headers, "Content-Type") = ContentTypeForm
              /\ Request[1].body = FormContent(Encode(FormValues[1]))
        /\ (FormValues = None /\ Query # None) =>
              Request[1].body = JSONContent(Marshal(Query[1]))
        /\ (FormValues = None /\ Query = None) => CarriesRawBody

\* C2: when the timer armed by a terminal action goes off while Client.Do is
\* running, the request's context is cancelled, Client.Do returns the context's
\* error, and the action returns that error with no response - and it does return.
C2_Safety ==
    firedInFlight =>
        /\ pc = "do" => RequestCancelled
        /\ pc = "done" => doResult.error = CtxError
        /\ pc = "idle" => (err = CtxError /\ Response = None)
C2_TimerCancelsInFlightCall ==
    /\ []C2_Safety
    /\ (pc = "do" /\ firedInFlight) ~> (pc = "idle" /\ err = CtxError)
C2_Witness == Returned /\ firedInFlight /\ err = CtxError /\ doCalls = 1

\* C3: once a terminal action has returned, on any exit path, no timer armed by
\* a terminal action is still pending.
C3_NoPendingTimerAfterReturn ==
    pc = "idle" => \A c \in DOMAIN ctxs : ctxs[c].timer # "pending"

\* C4: once a terminal action has returned, the timer it armed never goes off
\* afterwards (no step taken between terminal actions fires a timer), and a
\* cancel invoked again changes nothing.
C4_NoTimerFiresAfterReturn ==
    [][pc = "idle" =>
         /\ \A c \in DOMAIN ctxs : ctxs'[c].timer = "fired" => ctxs[c].timer = "fired"
         /\ \A c \in DOMAIN ctxs :
               ctxs[c].cancelled => CancelCtx(ctxs, c) = ctxs]_vars

C6_OneCallErrorVerbatim ==
    /\ doCalls <= 1
    /\ InFlight => doCalls = 1
    /\ Returned => (doCalls = 1 <=> err \notin {MarshalError, URLError})
    /\ (Returned /\ doResult.kind = "error") => err = doResult.error
C6_Witness ==
    Returned /\ doCalls = 1 /\ doResult.kind = "error" /\ err \in NetErrors

\* C7: a terminal action started while the query cannot be marshalled or the URL
\* cannot be parsed returns that error and never calls Client.Do.
ResolvingFails == (Query # None /\ ~MarshalOK(Query[1])) \/ ~URL.valid
C7_SetupErrorSkipsTransport ==
    [][(pc = "idle" /\ actionNo' = actionNo + 1 /\ ResolvingFails) =>
         /\ pc' = "idle"
         /\ doCalls' = 0
         /\ sent' = sent
         /\ err' = (IF Query # None /\ ~MarshalOK(Query[1])
                    THEN MarshalError ELSE URLError)]_vars
C7_Witness ==
    Returned /\ err = MarshalError /\ doCalls = 0 /\ URL.valid /\ FormValues # None

\* C8 as stated: a request built with no mutator called since the request before
\* it carries the same body as that request, whatever the body is.
C8_SameBodyWhenResent ==
    (InFlight /\ sent[1].prev # None) => Request[1].body = sent[1].prev[1]

\* C8 as amended: every request is built from the builder as it is when the
\* terminal action runs (the method asked for, the URL, and the query's JSON,
\* else the form encoding, else what the raw body still holds); with no mutator
\* called since the request before it, it carries the same body when the body
\* is the query, the form, or a raw body that is a *bytes.Buffer.
C8_ReserializedFromCurrentState ==
    InFlight =>
        /\ Request[1].method = sent[1].method
        /\ Request[1].url = URL
        /\ Query # None => Request[1].body = JSONContent(Marshal(Query[1]))
        /\ (Query = None /\ FormValues # None) =>
              Request[1].body = FormContent(Encode(FormValues[1]))
        /\ (Query = None /\ FormValues = None) => CarriesRawBody
        /\ (/\ sent[1].prev # None
            /\ \/ Query # None
               \/ FormValues # None
               \/ RequestBody = None
               \/ RequestBody[1].type = "bytes.Buffer")
           => Request[1].body = sent[1].prev[1]
C8_Witness ==
    /\ pc = "do"
    /\ sent[1].prev # None
    /\ Query = None /\ FormValues = None
    /\ RequestBody # None
    /\ RequestBody[1].type = "bytes.Buffer"
    /\ Request[1].body = RawContent("r1")

Occurrences(q, k) == {i \in DOMAIN q : q[i][1] = k}
C10_ParamOverwrites ==
    URL.valid =>
        \A k \in Keys :
            IF paramLog.set[k] # None
            THEN /\ Cardinality(Occurrences(URL.query, k)) = 1
                 /\ ParseQuery(URL.query)[k] = paramLog.set[k]
            ELSE ParseQuery(URL.query)[k] = ParseQuery(paramLog.initial.query)[k]
C10_Witness ==
    /\ URL.valid
    /\ paramLog.initial.query = << <<"a", "v1">>, <<"a", "v2">> >>
    /\ paramLog.set["a"] = Some("v1")
    /\ paramLog.set["k"] = Some("v2")
    /\ URL.query = << <<"a", "v1">>, <<"k", "v2">> >>

\* C11: on a builder whose URL does not parse, Param changes nothing of the
\* builder (the URL stays as it was given), Params returns nil, and a terminal
\* action run on it returns the URL parse error without calling Client.Do.
C11_Frame ==
    [][(~URL.valid /\ paramLog' # paramLog) =>
          /\ UNCHANGED builder
          /\ UNCHANGED <<Request, Response, err, pc, doCalls>>]_vars
C11_InvalidURLSilentUntilAction ==
    /\ [](~URL.valid =>
            /\ URL = paramLog.initial
            /\ Params = None
            /\ Returned => (err = URLError /\ doCalls = 0 /\ Request = None))
    /\ C11_Frame
C11_Witness ==
    /\ ~URL.valid
    /\ paramLog.set["a"] = Some("v1")
    /\ Returned
    /\ err = URLError

\* C19: a request handed to Client.Do carries either the background context or
\* the context created for this very action, and only the timer armed by this
\* action cancels it: nothing an earlier action left behind reaches it.
C19_TimeoutsDoNotCarryOver ==
    InFlight =>
        /\ Request[1].ctx # 0 => ctxs[Request[1].ctx].action = actionNo
        /\ (pc = "do" /\ RequestCancelled) => firedInFlight
        /\ doResult.error = CtxError => firedInFlight

\* C20: a response obtained under a non-zero timeout stays readable after the
\* action returned: while the caller has not read its body, the context the
\* body depends on is not cancelled, and reading the body does not fail.
C20_ResponseBodyStaysReadable ==
    (pc = "idle" /\ Response # None) =>
        /\ Response[1].body = "unread" => ~IsCancelled(Response[1].ctx)
        /\ Response[1].body # "failed"

-----------------------------------------------------------------------------
\* Several builders. What is seen through builder b: its fields and its headers.
HeadersOf(b) == headerMaps[builders[b].Headers]
View(b) == <<builders[b], HeadersOf(b)>>

\* A string with every leading and trailing "/" cut.
RECURSIVE TrimSlashes(_)
TrimSlashes(str) ==
    IF Len(str) >= 1 /\ SubSeq(str, 1, 1) = "/" THEN TrimSlashes(SubSeq(str, 2, Len(str)))
    ELSE IF Len(str) >= 1 /\ SubSeq(str, Len(str), Len(str)) = "/"
         THEN TrimSlashes(SubSeq(str, 1, Len(str) - 1))
    ELSE str

\* A string with one leading and one trailing "/" cut.
TrimOnce(str) == TrimSuffix(TrimPrefix(str, "/"), "/")

\* The URL joined with the segments: each trimmed (of every slash at its ends,
\* or of one at each end), the empty ones dropped, the rest joined by "/".
JoinedURL(url, paths, every) ==
    LET all == <<url>> \o paths
        Trim(str) == IF every THEN TrimSlashes(str) ELSE TrimOnce(str)
    IN  Join(SelectSeq([i \in DOMAIN all |-> Trim(all[i])],
                       LAMBDA part : part # ""),
             "/")

\* C12: Path(segments...) on builder b makes a new builder whose URL is b's URL
\* joined with the trimmed, non-empty segments (trimmed of every leading and
\* trailing "/", or of one of each: either reading of "trimmed" is accepted);
\* b and every other builder, and their headers, are as before; the new builder has a header map of its own
\* and no form or query; and no later step changes what is seen through two
\* builders at once.
C12_PathMakesIndependentBuilder ==
    [][/\ (Len(builders') = Len(builders) + 1) =>
            LET c == calls'[Len(calls')]
                new == Len(builders')
            IN  /\ \/ builders'[new].URL = JoinedURL(builders[c.b].URL, c.args, TRUE)
                   \/ builders'[new].URL = JoinedURL(builders[c.b].URL, c.args, FALSE)
                /\ \A i \in DOMAIN builders :
                      /\ builders'[i] = builders[i]
                      /\ headerMaps'[builders[i].Headers] = headerMaps[builders[i].Headers]
                      /\ builders'[new].Headers # builders[i].Headers
                /\ builders'[new].FormValues = None
                /\ builders'[new].Query = None
       /\ \A i, j \in DOMAIN builders :
             i # j => (View(i)' = View(i) \/ View(j)' = View(j))]_vars

\* The Authorization value the documentation of Auth promises for the arguments.
ClaimedAuthorization(args) ==
    IF args = <<"myToken">> THEN "Bearer myToken" ELSE "Basic YWRtaW46c2FmZQ=="
\* C13: right after Auth(token) the Authorization value read from the builder's
\* headers, which are the headers of its request, is "Bearer <token>", and right
\* after Auth(user, pass) it is "Basic <base64(user:pass)>".
C13_AuthSetsAuthorization ==
    [][(calls' # calls /\ calls'[Len(calls')].op = "Auth") =>
          LET c == calls'[Len(calls')]
              w == builders'[c.b]
          IN  /\ HeaderGet(headerMaps'[w.Headers], "Authorization")
                    = ClaimedAuthorization(c.args)
              /\ w.Request # None =>
                    HeaderGet(headerMaps'[w.Request[1].Header], "Authorization")
                       = ClaimedAuthorization(c.args)]_vars

\* The values passed for key k on builder b so far, in call order.
ValuesPassed(b, k) ==
    LET sel == SelectSeq(calls, LAMBDA c :
                   /\ c.b = b
                   /\ \/ c.op = "Header" /\ c.args[1] = k
                      \/ c.op = "Auth" /\ k = "Authorization")
    IN  [i \in DOMAIN sel |->
            IF sel[i].op = "Header" THEN sel[i].args[2] ELSE AuthHeader(sel[i].args)]
\* C14: the values a builder's headers hold under a key are the key's default
\* value, if it has one, and then every value passed for the key by Header
\* (also by Auth, which calls Header), in call order. (setupAction sets
\* Content-Type anew once the builder has form values.)
C14_HeaderAppends ==
    \A b \in DOMAIN builders, k \in HeaderNames :
        \/ k = "Content-Type" /\ builders[b].FormValues # None
        \/ HeadersOf(b)[k] = DefaultHeaders[k] \o ValuesPassed(b, k)
C14_Witness ==
    \E b \in DOMAIN builders :
        /\ HeadersOf(b)["X-Custom"] = <<"foo", "bar">>
        /\ HeadersOf(b)["Content-Type"] = <<"application/json", "text/plain">>
        /\ HeadersOf(b)["User-Agent"] = <<UserAgent>>

\* A header map that holds the two defaults and nothing else.
IsDefault(h) ==
    /\ h["User-Agent"] = <<"WeDeploy/master (+https://wedeploy.com)">>
    /\ h["Content-Type"] = <<"application/json">>
    /\ \A k \in HeaderNames \ {"User-Agent", "Content-Type"} : h[k] = <<>>
\* C15: a builder comes from URL or Path with the headers User-Agent and
\* Content-Type: application/json and nothing else, in a header map no other
\* builder holds: a step on one builder leaves the headers seen through every
\* other builder as they were.
C15_OwnDefaultHeaders ==
    /\ [](\A i, j \in DOMAIN builders :
             i # j => builders[i].Headers # builders[j].Headers)
    /\ [](calls = <<>> => \A b \in DOMAIN builders : IsDefault(HeadersOf(b)))
    /\ [][/\ (Len(builders') = Len(builders) + 1) =>
                IsDefault(headerMaps'[builders'[Len(builders')].Headers])
          /\ (calls' # calls) =>
                \A i \in DOMAIN builders \ {calls'[Len(calls')].b} :
                    headerMaps'[builders'[i].Headers] = HeadersOf(i)]_vars
C15_Witness ==
    /\ Len(builders) = 2
    /\ Len(calls) = 3
    /\ calls[1].op = "Header" /\ calls[1].b = 1
    /\ calls[2].op = "Path"
    /\ calls[3].op = "Auth" /\ calls[3].b = 2
    /\ HeadersOf(1)["X-Custom"] = <<"foo">>
    /\ HeadersOf(1)["Authorization"] = <<>>
    /\ HeadersOf(2)["X-Custom"] = <<>>
    /\ HeadersOf(2)["Authorization"] = <<"Bearer myToken">>

-----------------------------------------------------------------------------
\* The query mutator calls made so far, in call order.
InSeq(x, seq) == \E i \in DOMAIN seq : seq[i] = x
CallsOf(op) == SelectSeq(calls, LAMBDA c : c.op = op)
Last(seq) == seq[Len(seq)]
SentJSON == Request[1].body.json

\* C16: the JSON sent lists the filter, sort and aggregation clauses each in the
\* order their calls were made, however the calls of different categories were
\* interleaved, and has a key only for what some call populated.
C16_ClauseOrderWithinCategory ==
    (InFlight /\ calls # <<>>) =>
        /\ Request[1].body.format = "json"
        /\ LET F == CallsOf("Filter")
               S == CallsOf("Sort")
               A == CallsOf("Aggregate")
               d == SentJSON.doc
           IN  /\ Len(d.filter) = Len(F)
               /\ \A i \in DOMAIN F :
                     <<d.filter[i].key, d.filter[i].operator, d.filter[i].value>>
                        = F[i].args
               /\ Len(d.sort) = Len(S)
               /\ \A i \in DOMAIN S :
                     /\ d.sort[i].key = S[i].args[1]
                     /\ d.sort[i].direction =
                           (IF Len(S[i].args) = 1 THEN "asc" ELSE S[i].args[2])
               /\ Len(d.aggregation) = Len(A)
               /\ \A i \in DOMAIN A :
                     /\ {d.aggregation[i].key, d.aggregation[i].name}
                           = {A[i].args[1], A[i].args[2]}
                     /\ d.aggregation[i].operator =
                           (IF Len(A[i].args) = 2 THEN "" ELSE A[i].args[3])
               /\ InSeq("filter", SentJSON.keys) <=> F # <<>>
               /\ InSeq("sort", SentJSON.keys) <=> S # <<>>
               /\ InSeq("aggregation", SentJSON.keys) <=> A # <<>>
               /\ InSeq("type", SentJSON.keys) <=> CallsOf("Count") # <<>>
               /\ InSeq("highlight", SentJSON.keys) <=> CallsOf("Highlight") # <<>>
               /\ InSeq("limit", SentJSON.keys) <=> CallsOf("Limit") # <<>>
               /\ InSeq("offset", SentJSON.keys) <=> CallsOf("Offset") # <<>>
C16_Witness ==
    /\ pc = "do"
    /\ Len(calls) = 3
    /\ calls[1].op = "Aggregate" /\ calls[1].args = <<"a", "f", "min">>
    /\ calls[2].op = "Sort"
    /\ calls[3].op = "Aggregate" /\ calls[3].args = <<"m", "g", "missing">>
    /\ SentJSON.keys = <<"sort", "aggregation">>
    /\ SentJSON.doc.aggregation[1].operator = "min"
    /\ SentJSON.doc.aggregation[2].operator = "missing"

\* C17: the JSON sent has the key "limit" exactly when Limit was called, with
\* the number of the last call, 0 included, and likewise "offset" for Offset.
C17_LimitOffsetZeroIsExplicit ==
    InFlight =>
        /\ InSeq("limit", SentJSON.keys) <=> CallsOf("Limit") # <<>>
        /\ CallsOf("Limit") # <<>> => SentJSON.doc.limit = Last(CallsOf("Limit")).n
        /\ InSeq("offset", SentJSON.keys) <=> CallsOf("Offset") # <<>>
        /\ CallsOf("Offset") # <<>> => SentJSON.doc.offset = Last(CallsOf("Offset")).n
C17_Witness ==
    /\ pc = "do"
    /\ Len(calls) = 2
    /\ calls[1].op = "Limit" /\ calls[1].n = 10
    /\ calls[2].op = "Limit" /\ calls[2].n = 0
    /\ SentJSON.keys = <<"limit">>
    /\ SentJSON.doc.limit = 0

\* C18 as stated: the clause of Aggregate(a1, a2) or Aggregate(a1, a2, op) has
\* a1 as its outer key and a2 as the inner "name", with the operator only in
\* the three-argument form.
C18_FirstArgumentIsOuterKey ==
    InFlight =>
        LET A == CallsOf("Aggregate")
            d == SentJSON.doc
        IN  \A i \in DOMAIN A :
              /\ i \in DOMAIN d.aggregation
              /\ d.aggregation[i].key = A[i].args[1]
              /\ d.aggregation[i].name = A[i].args[2]
              /\ InSeq("operator", d.aggregation[i].inner) <=> Len(A[i].args) = 3
              /\ Len(A[i].args) = 3 => d.aggregation[i].operator = A[i].args[3]

\* C18 as amended: the clause of Aggregate(a1, a2) or Aggregate(a1, a2, op) has
\* a2 as its outer key and a1 as the inner "name", with the operator only in
\* the three-argument form.
C18_SecondArgumentIsOuterKey ==
    InFlight =>
        LET A == CallsOf("Aggregate")
            d == SentJSON.doc
        IN  \A i \in DOMAIN A :
              /\ i \in DOMAIN d.aggregation
              /\ d.aggregation[i].key = A[i].args[2]
              /\ d.aggregation[i].name = A[i].args[1]
              /\ InSeq("operator", d.aggregation[i].inner) <=> Len(A[i].args) = 3
              /\ Len(A[i].args) = 3 => d.aggregation[i].operator = A[i].args[3]
C18_Witness ==
    /\ pc = "do"
    /\ Len(calls) = 2
    /\ calls[1].op = "Aggregate" /\ calls[1].args = <<"a", "f">>
    /\ calls[2].op = "Aggregate" /\ calls[2].args = <<"a", "f", "min">>
    /\ SentJSON.doc.aggregation[1].key = "f"
    /\ SentJSON.doc.aggregation[1].name = "a"
    /\ SentJSON.doc.aggregation[1].inner = <<"name">>
    /\ SentJSON.doc.aggregation[2].inner = <<"operator", "name">>

====
